---------------------------- MODULE Spec2Model ----------------------------
(***************************************************************************)
(* A model of stompy's frame engine (src/stompy/frame.py): the byte-stream *)
(* reader Frame._getline, the parser Frame.parse_frame, the builder and    *)
(* serializer Frame.build_frame / Frame.as_string, the two demultiplexing  *)
(* queues behind Frame.get_message / Frame.get_reply, Frame.send_frame and *)
(* the handshake Frame.connect.                                            *)
(*                                                                         *)
(* Text.  A Python str is a sequence of symbols.  The delimiters the code  *)
(* looks for are symbols of their own (NL, NUL, COLON).  A protocol word   *)
(* the code only ever compares or looks up as a whole ("MESSAGE",          *)
(* "destination", "content-length", ...) is written as one symbol: no      *)
(* operation of the code looks inside it and it holds no delimiter.  Text  *)
(* whose length the code measures (a body) is made of one-character        *)
(* symbols.  A Python value that is not a str is a sequence starting with  *)
(* a "#" tag (PyNone, PyTrue, PyInt(n)); "%s" formatting is Fmt.           *)
(*                                                                         *)
(* The file mixes Python 2 (dict.iteritems, str sockets) with the          *)
(* Python 3 name of the queue module; the model follows the Python 2       *)
(* meaning of every statement.                                             *)
(***************************************************************************)
EXTENDS Integers, Sequences, FiniteSets, TLC

(***************************************************************************)
(* Symbols                                                                 *)
(***************************************************************************)
NL == "LF"
NUL == "NUL"
COLON == ":"
Terminator == <<NUL, NL>>

MESSAGE == <<"MESSAGE">>
DestinationKey == <<"destination">>
ReceiptKey == <<"receipt">>
SessionKey == <<"session">>
ContentLengthKey == <<"content-length">>
BytesMessageKey == <<"bytes_message">>
XClientKey == <<"x-client">>

\* socket.gethostbyname(socket.gethostname()): the host's address, one symbol
my_name == <<"127.0.0.1">>

PyNone == <<"#None">>
PyTrue == <<"#True">>
DigitSym == <<"0", "1", "2", "3", "4", "5", "6", "7", "8", "9">>

RECURSIVE Dec(_)
\* str(n) for a non-negative int
Dec(n) == IF n < 10 THEN <<DigitSym[n + 1]>>
          ELSE Dec(n \div 10) \o <<DigitSym[(n % 10) + 1]>>

PyInt(n) == <<"#int">> \o Dec(n)

IsTagged(v) == Len(v) > 0 /\ v[1] \in {"#None", "#True", "#int"}

\* "%s" % v
Fmt(v) == IF v = PyNone THEN <<"N", "o", "n", "e">>
          ELSE IF v = PyTrue THEN <<"T", "r", "u", "e">>
          ELSE IF IsTagged(v) THEN Tail(v)
          ELSE v

(***************************************************************************)
(* str operations used by the code                                         *)
(***************************************************************************)
\* s[i:] with 0-based i (Python slicing never fails)
DropFirst(s, i) == IF i >= Len(s) THEN <<>> ELSE SubSeq(s, i + 1, Len(s))

\* s[:-k]
DropLast(s, k) == IF k >= Len(s) THEN <<>> ELSE SubSeq(s, 1, Len(s) - k)

\* s.endswith(suffix)
EndsWith(s, suffix) ==
    /\ Len(s) >= Len(suffix)
    /\ SubSeq(s, Len(s) - Len(suffix) + 1, Len(s)) = suffix

\* s.find(pat): 1-based index of the first occurrence, 0 when absent
Find(s, pat) ==
    LET hits == {i \in 1..(Len(s) - Len(pat) + 1) :
                     SubSeq(s, i, i + Len(pat) - 1) = pat}
    IN IF hits = {} THEN 0 ELSE CHOOSE i \in hits : \A j \in hits : i <= j

\* s.partition(sep): <<head, sep, tail>>, <<s, '', ''>> when sep is absent
Partition(s, sep) ==
    LET i == Find(s, sep)
    IN IF i = 0 THEN <<s, <<>>, <<>>>>
       ELSE <<SubSeq(s, 1, i - 1), sep, DropFirst(s, i - 1 + Len(sep))>>

RECURSIVE Split(_, _)
\* s.split(c) for a one-symbol separator: the list of all the pieces
Split(s, c) ==
    LET i == Find(s, <<c>>)
    IN IF i = 0 THEN <<s>>
       ELSE <<SubSeq(s, 1, i - 1)>> \o Split(DropFirst(s, i), c)

\* s.split(c, 1): at most one split
Split1(s, c) ==
    LET i == Find(s, <<c>>)
    IN IF i = 0 THEN <<s>> ELSE <<SubSeq(s, 1, i - 1), DropFirst(s, i)>>

RECURSIVE Concat(_)
\* "".join(parts)
Concat(parts) == IF parts = <<>> THEN <<>> ELSE Head(parts) \o Concat(Tail(parts))

\* a dict with one more item (d[k] = v)
DictSet(d, k, v) == [x \in DOMAIN d \cup {k} |-> IF x = k THEN v ELSE d[x]]

\* del d[k]
DictDel(d, k) == [x \in DOMAIN d \ {k} |-> d[x]]

EmptyDict == [x \in {} |-> <<>>]

RECURSIVE DictOf(_)
\* dict(pairs): a later pair replaces an earlier one with the same key
DictOf(pairs) ==
    IF pairs = <<>> THEN EmptyDict
    ELSE LET n == Len(pairs)
         IN DictSet(DictOf(SubSeq(pairs, 1, n - 1)), pairs[n][1], pairs[n][2])

(***************************************************************************)
(* Frames and call outcomes.  One record shape serves for a frame, for the *)
(* "none" result and for a raised exception, so that any two outcomes can  *)
(* be compared.                                                            *)
(***************************************************************************)
MkFrame(c, h, b) ==
    [kind |-> "frame", command |-> c, headers |-> h, body |-> b, exc |-> "", text |-> <<>>]

NoFrame ==
    [kind |-> "none", command |-> <<>>, headers |-> EmptyDict, body |-> <<>>,
     exc |-> "", text |-> <<>>]

Raised(e, t) ==
    [kind |-> "raise", command |-> <<>>, headers |-> EmptyDict, body |-> <<>>,
     exc |-> e, text |-> t]

\* the orders in which a dict with key set S may be iterated
Orders(S) ==
    {o \in [1..Cardinality(S) -> S] : \A i, j \in 1..Cardinality(S) : o[i] = o[j] => i = j}

(***************************************************************************)
(* Frame.as_string (lines 94-122).  The dict is changed in place: the      *)
(* result carries the dict as the call leaves it and the text produced,    *)
(* or the exception when len(body) fails on a missing body.                *)
(***************************************************************************)
AsStringHeaders(h, b) ==
    LET h1 == IF BytesMessageKey \in DOMAIN h
              THEN DictSet(DictDel(h, BytesMessageKey), ContentLengthKey, PyInt(Len(b)))
              ELSE h
    IN DictSet(h1, XClientKey, my_name)

HeaderPart(h, k) == Fmt(k) \o <<COLON>> \o Fmt(h[k]) \o <<NL>>

\* the two-byte marker the writer should end a frame with is Terminator;
\* line 120 ends the text with "\x00"
FrameEnd == <<NUL>>

FrameText(c, h, b, order) ==
    Fmt(c) \o <<NL>> \o Concat([i \in 1..Len(order) |-> HeaderPart(h, order[i])])
           \o <<NL>> \o Fmt(b) \o FrameEnd

AsString(c, h, b, order) ==
    IF BytesMessageKey \in DOMAIN h /\ b = PyNone
    THEN [headers |-> DictDel(h, BytesMessageKey), exc |-> "TypeError", out |-> <<>>]
    ELSE LET h2 == AsStringHeaders(h, b)
         IN [headers |-> h2, exc |-> "", out |-> FrameText(c, h2, b, order)]

\* the orders as_string may iterate the dict in, once it has changed it
AsStringOrders(h, b) ==
    IF BytesMessageKey \in DOMAIN h /\ b = PyNone THEN {<<>>}
    ELSE Orders(DOMAIN AsStringHeaders(h, b))

(***************************************************************************)
(* Frame.parse_command, Frame.parse_headers, Frame.parse_frame             *)
(***************************************************************************)
\* str.split('\n', 1)[0]
parse_command(str) == Split1(str, NL)[1]

HeaderLines(headers_str) == Split(headers_str, NL)

\* dict() fails on a line that split(":", 1) leaves in one piece
HeadersWellFormed(headers_str) ==
    \A i \in 1..Len(HeaderLines(headers_str)) :
        Len(Split1(HeaderLines(headers_str)[i], COLON)) = 2

parse_headers(headers_str) ==
    DictOf([i \in 1..Len(HeaderLines(headers_str)) |->
               Split1(HeaderLines(headers_str)[i], COLON)])

\* line 168: the text is refused when the header block is empty
HeaderBlockMissing(headers_str) == headers_str = <<>>

\* lines 162-179, given what _getline returned (PyNone or the text)
ParseLine(got) ==
    IF got = PyNone \/ got = <<>> THEN NoFrame
    ELSE LET cmd  == parse_command(got)
             line == DropFirst(got, Len(cmd) + 1)
             part == Partition(line, <<NL, NL>>)
         IN IF HeaderBlockMissing(part[1])
            THEN Raised("UnknownBrokerResponseError", line)
            ELSE IF ~HeadersWellFormed(part[1]) THEN Raised("ValueError", <<>>)
            ELSE LET h  == parse_headers(part[1])
                     h2 == IF ContentLengthKey \in DOMAIN h
                           THEN DictSet(h, BytesMessageKey, PyTrue) ELSE h
                 IN MkFrame(cmd, h2, part[3])

(***************************************************************************)
(* IntermediateMessageQueue.put (lines 23-27): a frame without a           *)
(* destination header is not kept.                                         *)
(***************************************************************************)
\* (mutant: the destination test of line 25 left out)
IqueuePut_unfiltered(iq, frame) == Append(iq, frame)

IqueuePut(iq, frame) ==
    IF DestinationKey \notin DOMAIN frame.headers THEN iq ELSE Append(iq, frame)

\* (mutant: the frame is not kept)
RqueuePut_drop(rq, frame) == rq

\* (mutant: the pending replies kept last-in-first-out)
RqueuePut_lifo(rq, frame) == <<frame>> \o rq

\* Queue.put on rqueue (lines 133, 147)
RqueuePut(rq, frame) == Append(rq, frame)

\* (mutant: the destination filter applied in the MESSAGE test)
IsMessage_withDestination(frame) ==
    frame.command = MESSAGE /\ DestinationKey \in DOMAIN frame.headers

\* (mutant: a frame taken for a message when it names a destination)
IsMessage_byDestination(frame) == DestinationKey \in DOMAIN frame.headers

\* line 130 and line 144: the test that tells a message from a reply
IsMessage(frame) == frame.command = MESSAGE

(***************************************************************************)
(* State                                                                   *)
(***************************************************************************)
Ctx == {"A", "B"}          \* the execution contexts that call into the connection

VARIABLES
    command,    \* self.command
    headers,    \* self.headers: which dict object it refers to ("own" or "caller")
    body,       \* self.body
    session,    \* self.session: [isNone, d]
    dicts,      \* the dict objects: dicts.own (made for this frame), dicts.caller
                \* (a mapping the caller keeps and may pass again)
    iqueue,     \* self.iqueue._queue
    rqueue,     \* self.rqueue
    blocking,   \* the socket's blocking-mode flag
    sockin,     \* bytes that have arrived and are not read yet
    future,     \* bytes the peer has still to deliver
    sockout,    \* the texts written with sendall, in order
    op,         \* per context: the operation in progress
    nb,         \* per context: its nb argument
    pc,         \* per context: where it stands
    buffer,     \* per context: _getline's buffer
    partial,    \* per context: _getline's partial
    script,     \* history: the frames the peer sends, in order
    built,      \* history: the arguments of the last build_frame on the connection
    returns,    \* history: the frames the calls have returned, in order
    start,      \* history, per context: the queues, the frame built, the number
                \* of writes and the socket's blocking flag when its call began;
                \* whether it has read a byte; the text _getline last gave it
    last        \* history, per context: how its last call ended

conn == <<command, headers, body, session, dicts>>
queues == <<iqueue, rqueue>>
sock == <<blocking, sockin, future, sockout>>
locals == <<op, nb, pc, buffer, partial>>
history == <<script, built, returns, start, last>>
vars == <<conn, queues, sock, locals, history>>

NoSession == [isNone |-> TRUE, d |-> EmptyDict]
NoBuild == [command |-> PyNone, headers |-> EmptyDict, body |-> PyNone,
            want_receipt |-> FALSE, ref |-> "own", exc |-> ""]
NoStart == [iq |-> <<>>, rq |-> <<>>, read |-> FALSE, got |-> PyNone,
            arg |-> NoBuild, w0 |-> 0, flag |-> TRUE]
NoCall == [op |-> "", nb |-> FALSE, out |-> NoFrame, iq1 |-> <<>>, rq1 |-> <<>>,
           from |-> NoStart]

\* Frame.__init__ (lines 51-59), on a socket in its initial blocking mode
InitConn ==
    /\ command = PyNone
    /\ headers = "own"
    /\ body = PyNone
    /\ session = NoSession
    /\ iqueue = <<>>
    /\ rqueue = <<>>
    /\ blocking = TRUE
    /\ sockout = <<>>
    /\ op = [c \in Ctx |-> ""]
    /\ nb = [c \in Ctx |-> FALSE]
    /\ pc = [c \in Ctx |-> "idle"]
    /\ buffer = [c \in Ctx |-> <<>>]
    /\ partial = [c \in Ctx |-> <<>>]
    /\ built = NoBuild
    /\ returns = <<>>
    /\ start = [c \in Ctx |-> NoStart]
    /\ last = [c \in Ctx |-> NoCall]

(***************************************************************************)
(* The end of a call and the head of the accessors' loops                  *)
(***************************************************************************)
ReplyLike(o) == o \in {"get_reply", "send_frame", "connect"}

\* the call of context c (operation o, argument n) ends with outcome out,
\* the queues being iq and rq; connect stores the reply's headers (line 69).
\* st is the call's history.
Return(c, o, n, out, iq, rq, st) ==
    /\ pc' = [pc EXCEPT ![c] = "idle"]
    /\ iqueue' = iq
    /\ rqueue' = rq
    /\ start' = [start EXCEPT ![c] = NoStart]
    /\ last' = [last EXCEPT ![c] =
                   [op |-> o, nb |-> n, out |-> out, iq1 |-> iq, rq1 |-> rq, from |-> st]]
    /\ returns' = IF out.kind = "frame" THEN Append(returns, [op |-> o, frame |-> out])
                  ELSE returns
    /\ session' = IF o = "connect" /\ out.kind = "frame"
                  THEN [isNone |-> FALSE, d |-> out.headers]
                  ELSE session

\* the call goes on to parse_frame, that is to _getline (line 207)
GoRead(c, iq, rq, st) ==
    /\ pc' = [pc EXCEPT ![c] = "setblocking"]
    /\ iqueue' = iq
    /\ rqueue' = rq
    /\ start' = [start EXCEPT ![c] = st]
    /\ last' = [last EXCEPT ![c] = NoCall]
    /\ UNCHANGED <<returns, session>>

RECURSIVE MessageHead(_, _)
\* get_message, lines 126-133, as long as iqueue.get finds a queued frame:
\* what is returned (found) or the queues with which the transport is read
MessageHead(iq, rq) ==
    IF iq = <<>> THEN [found |-> FALSE, out |-> NoFrame, iq |-> iq, rq |-> rq]
    ELSE IF IsMessage(Head(iq))
         THEN [found |-> TRUE, out |-> Head(iq), iq |-> Tail(iq), rq |-> rq]
         ELSE MessageHead(Tail(iq), RqueuePut(rq, Head(iq)))

\* the top of the loop of get_message (line 127), get_reply (line 139) or,
\* for parse_frame itself, the read
LoopHead(c, o, n, iq, rq, st) ==
    IF o = "get_message"
    THEN LET h == MessageHead(iq, rq)
         IN IF h.found THEN Return(c, o, n, h.out, h.iq, h.rq, st)
            ELSE GoRead(c, h.iq, h.rq, st)
    ELSE IF ReplyLike(o) /\ rq # <<>>
         THEN Return(c, o, n, Head(rq), iq, Tail(rq), st)
         ELSE GoRead(c, iq, rq, st)

\* (mutant: the nb test of lines 128 and 142 left out)
NoneOutcome_unguarded(n) == Raised("AttributeError", <<>>)

\* lines 128-129 and 142-143: parse_frame gave nothing
NoneOutcome(n) == IF n THEN NoFrame ELSE Raised("AttributeError", <<>>)

\* what the accessor does with what parse_frame gave it (lines 128-133, 142-147)
Dispatch(c, o, n, frame, st) ==
    IF o = "parse_frame" \/ frame.kind = "raise"
    THEN Return(c, o, n, frame, iqueue, rqueue, st)
    ELSE IF frame.kind = "none"
    THEN Return(c, o, n, NoneOutcome(n), iqueue, rqueue, st)
    ELSE IF o = "get_message"
    THEN IF IsMessage(frame) THEN Return(c, o, n, frame, iqueue, rqueue, st)
         ELSE LoopHead(c, o, n, iqueue, RqueuePut(rqueue, frame), st)
    ELSE IF IsMessage(frame)
         THEN LoopHead(c, o, n, IqueuePut(iqueue, frame), rqueue, st)
         ELSE LoopHead(c, o, n, iqueue, RqueuePut(rqueue, frame), st)

(***************************************************************************)
(* The peer.  A frame on the wire, as the reader expects it: command,      *)
(* header lines, a blank line, the body and the two-byte terminator.       *)
(***************************************************************************)
RECEIPT == <<"RECEIPT">>
CONNECTED == <<"CONNECTED">>
CONNECT == <<"CONNECT">>

\* the frame the peer sends in place i of its script, by kind
ScriptFrame(kind, i) ==
    IF kind = "reply" THEN MkFrame(RECEIPT, [k \in {<<"receipt-id">>} |-> Dec(i)], <<>>)
    ELSE IF kind = "connected"
    THEN MkFrame(CONNECTED, [k \in {SessionKey} |-> <<"abc123">>], <<>>)
    ELSE IF kind = "message"
    THEN MkFrame(MESSAGE, [k \in {DestinationKey} |-> <<"q">>], Dec(i))
    ELSE MkFrame(MESSAGE, [k \in {<<"message-id">>} |-> Dec(i)], Dec(i))

\* a total order of a frame's header names, for the peer's text
KeyOrder(h) == CHOOSE o \in Orders(DOMAIN h) : TRUE

PeerText(f) ==
    f.command \o <<NL>> \o Concat([i \in 1..Len(KeyOrder(f.headers)) |->
                                      HeaderPart(f.headers, KeyOrder(f.headers)[i])])
              \o <<NL>> \o f.body \o Terminator

StreamOf(frames) == Concat([i \in 1..Len(frames) |-> PeerText(frames[i])])

\* the scripts of n frames with kinds from K
Scripts(K, n) == {[i \in 1..n |-> ScriptFrame(ks[i], i)] : ks \in [1..n -> K]}

(***************************************************************************)
(* Frame._getline (lines 200-222), one socket call per step                *)
(***************************************************************************)
\* line 207: the socket is put in the mode the call asks for
getline_setblocking(c) ==
    /\ pc[c] = "setblocking"
    /\ blocking' = ~nb[c]
    /\ buffer' = [buffer EXCEPT ![c] = <<>>]
    /\ partial' = [partial EXCEPT ![c] = <<>>]
    /\ pc' = [pc EXCEPT ![c] = "recv"]
    /\ UNCHANGED <<conn, queues, sockin, future, sockout, op, nb, history>>

\* events of the transport that are not bytes: a read that fails with an
\* errno other than EAGAIN, and the end of the stream
ERR == "ECONNRESET"
EOF == "EOF"

\* lines 211-219: recv(1) returns a byte, which is added to the buffer
getline_recv(c) ==
    /\ pc[c] = "recv"
    /\ sockin # <<>>
    /\ Head(sockin) \notin {ERR, EOF}
    /\ partial' = [partial EXCEPT ![c] = <<Head(sockin)>>]
    /\ buffer' = [buffer EXCEPT ![c] = buffer[c] \o <<Head(sockin)>>]
    /\ sockin' = Tail(sockin)
    /\ pc' = [pc EXCEPT ![c] = IF EndsWith(buffer'[c], Terminator) THEN "finally" ELSE "recv"]
    /\ start' = [start EXCEPT ![c].read = TRUE]
    /\ UNCHANGED <<conn, queues, blocking, future, sockout, op, nb,
                   script, built, returns, last>>

\* (mutant: the read given up on EAGAIN whatever the buffer holds)
getline_eagain_givesUp(c) ==
    /\ pc[c] = "recv"
    /\ sockin = <<>>
    /\ ~blocking
    /\ pc' = [pc EXCEPT ![c] = "finally"]
    /\ UNCHANGED <<conn, queues, sock, op, nb, buffer, partial, history>>

\* lines 214-218: recv(1) on a socket in non-blocking mode with nothing to
\* read raises EAGAIN; with an empty buffer the read is given up, otherwise
\* it is tried again
getline_eagain(c) ==
    /\ pc[c] = "recv"
    /\ sockin = <<>>
    /\ ~blocking
    /\ pc' = [pc EXCEPT ![c] = IF buffer[c] = <<>> THEN "finally" ELSE "recv"]
    /\ UNCHANGED <<conn, queues, sock, op, nb, buffer, partial, history>>

\* lines 214-218 on a socket in blocking mode: recv(1) raises EAGAIN all the
\* same (the socket's receive timeout, SO_RCVTIMEO, ran out).  The handler
\* does not look at nb: the path is that of getline_eagain.
getline_timeout(c) ==
    /\ pc[c] = "recv"
    /\ sockin = <<>>
    /\ blocking
    /\ pc' = [pc EXCEPT ![c] = IF buffer[c] = <<>> THEN "finally" ELSE "recv"]
    /\ UNCHANGED <<conn, queues, sock, op, nb, buffer, partial, history>>

\* lines 213-219: recv(1) raises socket.error with an errno other than
\* EAGAIN.  The handler tests for EAGAIN only and does not raise again: the
\* statement after it adds partial, still the byte of the last good read
\* (or '' when there was none), to the buffer, and the loop goes on.
getline_error(c) ==
    /\ pc[c] = "recv"
    /\ sockin # <<>>
    /\ Head(sockin) = ERR
    /\ sockin' = Tail(sockin)
    /\ buffer' = [buffer EXCEPT ![c] = buffer[c] \o partial[c]]
    /\ pc' = [pc EXCEPT ![c] = IF EndsWith(buffer'[c], Terminator) THEN "finally" ELSE "recv"]
    /\ UNCHANGED <<conn, queues, blocking, future, sockout, op, nb, partial, history>>

\* lines 213 and 219 at the end of the stream: recv(1) returns '' and raises
\* nothing; '' is added to the buffer, which does not change, and the loop
\* test of line 211 is what it was
getline_eof(c) ==
    /\ pc[c] = "recv"
    /\ sockin # <<>>
    /\ Head(sockin) = EOF
    /\ partial' = [partial EXCEPT ![c] = <<>>]
    /\ UNCHANGED <<conn, queues, sock, op, nb, pc, buffer, history>>

\* what _getline returns: None on the early return, else buffer[:-2]
GetlineResult(buf) == IF buf = <<>> THEN PyNone ELSE DropLast(buf, 2)

\* line 221, the return, and the caller's use of the text up to its next
\* socket call or its own return
getline_finally(c) ==
    /\ pc[c] = "finally"
    /\ blocking' = nb[c]
    /\ Dispatch(c, op[c], nb[c], ParseLine(GetlineResult(buffer[c])),
                [start[c] EXCEPT !.got = GetlineResult(buffer[c])])
    /\ UNCHANGED <<command, headers, body, dicts, sockin, future, sockout,
                   op, nb, buffer, partial, script, built>>

\* the peer's next byte arrives
\* (recv(1) sees only whether a byte has arrived: the next byte is handed over
\* once the last one has been read)
Deliver ==
    /\ future # <<>>
    /\ sockin = <<>>
    /\ sockin' = Append(sockin, Head(future))
    /\ future' = Tail(future)
    /\ UNCHANGED <<conn, queues, blocking, sockout, locals, history>>

(***************************************************************************)
(* The accessors                                                           *)
(***************************************************************************)
\* the history of a call that begins now, for the frame last built
Starting(arg) ==
    [iq |-> iqueue, rq |-> rqueue, read |-> FALSE, got |-> PyNone,
     arg |-> arg, w0 |-> Len(sockout), flag |-> blocking]

BeginCall(c, o, n) ==
    /\ pc[c] = "idle"
    /\ op' = [op EXCEPT ![c] = o]
    /\ nb' = [nb EXCEPT ![c] = n]

\* Frame.get_message (lines 124-133)
get_message(c, n) ==
    /\ BeginCall(c, "get_message", n)
    /\ LoopHead(c, "get_message", n, iqueue, rqueue, Starting(NoBuild))
    /\ UNCHANGED <<command, headers, body, dicts, sock, buffer, partial, script, built>>

\* Frame.get_reply (lines 135-147)
get_reply(c, n) ==
    /\ BeginCall(c, "get_reply", n)
    /\ LoopHead(c, "get_reply", n, iqueue, rqueue, Starting(NoBuild))
    /\ UNCHANGED <<command, headers, body, dicts, sock, buffer, partial, script, built>>

\* Frame.parse_frame (lines 149-179) called by itself
parse_frame(c, n) ==
    /\ BeginCall(c, "parse_frame", n)
    /\ LoopHead(c, "parse_frame", n, iqueue, rqueue, Starting(NoBuild))
    /\ UNCHANGED <<command, headers, body, dicts, sock, buffer, partial, script, built>>

(***************************************************************************)
(* Frame.build_frame, Frame.send_frame, Frame.connect                      *)
(***************************************************************************)
\* self.session.get("session")
SessionGet(sess) == IF SessionKey \in DOMAIN sess.d THEN sess.d[SessionKey] ELSE PyNone

\* (mutant: the receipt made of the random number alone)
ReceiptValue_noSession(sess, stamp) == Dec(stamp)

\* lines 89-91: "%s-%s" % (self.session.get("session"), receipt_stamp)
ReceiptValue(sess, stamp) == Fmt(SessionGet(sess)) \o <<"-">> \o Dec(stamp)

\* Frame.build_frame (lines 71-92) on the connection, by a caller that is in
\* no other call.  The headers are either a new dict with the items fresh
\* (ref = "own") or the dict the caller keeps (ref = "caller"); stamp is the
\* number random.randint gives.  With no session yet, line 90 raises after
\* the three fields are set.
build_frame(cmd, ref, fresh, b, want_receipt, stamp) ==
    LET passed == IF ref = "own" THEN fresh ELSE dicts.caller
        fails  == want_receipt /\ session.isNone
    IN /\ \A c \in Ctx : pc[c] = "idle"
       /\ command' = cmd
       /\ headers' = ref
       /\ body' = b
       /\ dicts' = [dicts EXCEPT ![ref] =
                       IF want_receipt /\ ~fails
                       THEN DictSet(passed, ReceiptKey, ReceiptValue(session, stamp))
                       ELSE passed]
       /\ built' = [command |-> cmd, headers |-> passed, body |-> b,
                    want_receipt |-> want_receipt, ref |-> ref,
                    exc |-> IF fails THEN "AttributeError" ELSE ""]
       /\ UNCHANGED <<session, queues, sock, locals, script, returns, start, last>>

\* line 197: the test that makes send_frame wait for a reply
WantsReply(h) == ReceiptKey \in DOMAIN h

\* self.send_frame(self.as_string()), the way line 65 uses it: the text of
\* the frame last built is written (line 195), and get_reply is called when
\* self.headers holds a receipt (lines 197-198)
send_frame(c, order) ==
    LET r == AsString(command, dicts[headers], body, order)
    IN /\ BeginCall(c, "send_frame", FALSE)
       /\ order \in AsStringOrders(dicts[headers], body)
       /\ dicts' = [dicts EXCEPT ![headers] = r.headers]
       /\ UNCHANGED <<command, headers, body, blocking, sockin, future,
                      buffer, partial, script, built>>
       /\ IF r.exc # ""
          THEN /\ sockout' = sockout
               /\ Return(c, "send_frame", FALSE, Raised(r.exc, <<>>), iqueue, rqueue,
                         Starting(built))
          ELSE /\ sockout' = Append(sockout, r.out)
               /\ IF WantsReply(r.headers)
                  THEN LoopHead(c, "send_frame", FALSE, iqueue, rqueue, Starting(built))
                  ELSE Return(c, "send_frame", FALSE, NoFrame, iqueue, rqueue,
                              Starting(built))

\* the frame connect builds (line 64): no headers, no body
ConnectArgs == [command |-> CONNECT, headers |-> EmptyDict, body |-> PyNone,
                want_receipt |-> FALSE, ref |-> "own", exc |-> ""]

\* Frame.connect (lines 61-69) up to its get_reply: the CONNECT frame is
\* built in a new dict, serialized and written; its reply is then awaited
connect(c) ==
    LET r == AsString(CONNECT, EmptyDict, PyNone, <<XClientKey>>)
    IN /\ BeginCall(c, "connect", FALSE)
       /\ command' = CONNECT
       /\ headers' = "own"
       /\ body' = PyNone
       /\ dicts' = [dicts EXCEPT !.own = r.headers]
       /\ built' = ConnectArgs
       /\ sockout' = Append(sockout, r.out)
       /\ LoopHead(c, "connect", FALSE, iqueue, rqueue, Starting(ConnectArgs))
       /\ UNCHANGED <<blocking, sockin, future, buffer, partial, script>>

(***************************************************************************)
(* One caller, one call at a time: the accessors over a peer's script      *)
(***************************************************************************)
MaxFrames == 4

Init ==
    /\ InitConn
    /\ dicts = [own |-> EmptyDict, caller |-> EmptyDict]
    /\ script \in Scripts({"reply", "message", "nodest"}, MaxFrames)
    /\ future = StreamOf(script)
    /\ sockin = <<>>

Next ==
    \/ \E n \in BOOLEAN : get_message("A", n)
    \/ \E n \in BOOLEAN : get_reply("A", n)
    \/ getline_setblocking("A")
    \/ getline_recv("A")
    \/ getline_eagain("A")
    \/ getline_finally("A")
    \/ Deliver

Spec == Init /\ [][Next]_vars

(***************************************************************************)
(* Properties of the accessors                                             *)
(***************************************************************************)
IsPrefix(s, t) == Len(s) <= Len(t) /\ SubSeq(t, 1, Len(s)) = s

RECURSIVE IsSubseq(_, _)
\* s is t with some elements left out
IsSubseq(s, t) ==
    IF s = <<>> THEN TRUE
    ELSE IF t = <<>> THEN FALSE
    ELSE IF Head(s) = Head(t) THEN IsSubseq(Tail(s), Tail(t))
    ELSE IsSubseq(s, Tail(t))

RECURSIVE Pick(_, _)
\* the frames of the return history rs that the operations in ops returned
Pick(rs, ops) ==
    IF rs = <<>> THEN <<>>
    ELSE IF Head(rs).op \in ops THEN <<Head(rs).frame>> \o Pick(Tail(rs), ops)
    ELSE Pick(Tail(rs), ops)

RECURSIVE OfKind(_, _)
\* the frames of fs whose command is MESSAGE (msg) or is not (~msg)
OfKind(fs, msg) ==
    IF fs = <<>> THEN <<>>
    ELSE IF (Head(fs).command = <<"MESSAGE">>) = msg THEN <<Head(fs)>> \o OfKind(Tail(fs), msg)
    ELSE OfKind(Tail(fs), msg)

AllHaveDestination(fs) ==
    \A i \in 1..Len(fs) : <<"destination">> \in DOMAIN fs[i].headers

\* C1: the replies returned by get_reply are the first replies of the peer's
\* script, in the order of arrival; the messages returned by get_message
\* are messages of the script in the order of arrival, and the first ones of
\* it when every message carries a destination header.  For the script
\* REPLY1, MESSAGE1, REPLY2, MESSAGE2 this gives REPLY1 then REPLY2 and
\* MESSAGE1 then MESSAGE2 whatever the order of the calls.
C1DemuxOrder ==
    /\ IsPrefix(Pick(returns, {"get_reply"}), OfKind(script, FALSE))
    /\ IsSubseq(Pick(returns, {"get_message"}), OfKind(script, TRUE))
    /\ AllHaveDestination(OfKind(script, TRUE))
           => IsPrefix(Pick(returns, {"get_message"}), OfKind(script, TRUE))

\* the script REPLY1, MESSAGE1, REPLY2, MESSAGE2 read by two get_message
\* calls followed by two get_reply calls
C1Witness ==
    /\ Len(script) >= 4
    /\ SubSeq(script, 1, 4) = <<ScriptFrame("reply", 1), ScriptFrame("message", 2),
                                ScriptFrame("reply", 3), ScriptFrame("message", 4)>>
    /\ returns = <<[op |-> "get_message", frame |-> script[2]],
                   [op |-> "get_message", frame |-> script[4]],
                   [op |-> "get_reply", frame |-> script[1]],
                   [op |-> "get_reply", frame |-> script[3]]>>
    /\ last["A"].nb = FALSE

\* C2: get_message returns MESSAGE frames only, get_reply (and send_frame
\* and connect, which return what get_reply gives them) frames of any other
\* command only; rqueue holds no MESSAGE frame, iqueue nothing else.
C2KindSeparation ==
    /\ \A i \in 1..Len(returns) :
           (returns[i].op = "get_message") = (returns[i].frame.command = <<"MESSAGE">>)
    /\ \A i \in 1..Len(rqueue) : rqueue[i].command # <<"MESSAGE">>
    /\ \A i \in 1..Len(iqueue) : iqueue[i].command = <<"MESSAGE">>

\* a reply waits in rqueue after get_message read past it, and both
\* accessors have returned a frame
C2Witness ==
    /\ rqueue # <<>>
    /\ \E i \in 1..Len(returns) : returns[i].op = "get_message"
    /\ \E i \in 1..Len(returns) : returns[i].op = "get_reply"

\* the finished call of context c was an accessor in non-blocking mode whose
\* own queue was empty and which found no byte to read
NoDataCall(c) ==
    /\ last[c].op \in {"get_message", "get_reply"}
    /\ last[c].nb
    /\ ~last[c].from.read
    /\ last[c].op = "get_message" => last[c].from.iq = <<>>
    /\ last[c].op = "get_reply" => last[c].from.rq = <<>>

\* C5: such a call returned the "none" result and left both queues as they
\* were when it began; and a non-blocking call that finds nothing to read is
\* not suspended: its socket is in non-blocking mode.
C5NoData ==
    \A c \in Ctx :
        /\ NoDataCall(c) => /\ last[c].out = NoFrame
                            /\ last[c].iq1 = last[c].from.iq
                            /\ last[c].rq1 = last[c].from.rq
        /\ (pc[c] = "recv" /\ nb[c] /\ sockin = <<>>) => ~blocking

\* a non-blocking get_message found nothing while a reply waited in rqueue
C5Witness ==
    /\ NoDataCall("A")
    /\ last["A"].op = "get_message"
    /\ last["A"].from.rq # <<>>
    /\ sockin = <<>>

(***************************************************************************)
(* One caller that connects, builds and sends frames and reads, in         *)
(* blocking mode throughout: the peer's bytes have all arrived (a blocking *)
(* read waits for them in any case) and the dicts are iterated in the one  *)
(* order KeyOrder.                                                         *)
(***************************************************************************)
MaxSendFrames == 2
MaxWrites == 2

\* the numbers random.randint(0, 10000000) is taken to give (line 89)
Stamps == {0, 41}
Commands == {<<"SEND">>}
Bodies == {<<"h", "i">>}
Queue == [k \in {DestinationKey} |-> <<"q">>]
FreshHeaders == {Queue}
CallerHeaders == {Queue}

InitSend ==
    /\ InitConn
    /\ dicts \in [own : {EmptyDict}, caller : CallerHeaders]
    /\ script \in Scripts({"connected", "message"}, MaxSendFrames)
    /\ sockin = StreamOf(script)
    /\ future = <<>>

NextSend ==
    \/ /\ Len(sockout) < MaxWrites
       /\ connect("A")
    \/ \E cmd \in Commands, ref \in {"own", "caller"}, fresh \in FreshHeaders,
          b \in Bodies, want \in BOOLEAN, stamp \in Stamps :
           /\ ~want => stamp = 0
           /\ build_frame(cmd, ref, fresh, b, want, stamp)
    \/ /\ Len(sockout) < MaxWrites
       /\ send_frame("A", KeyOrder(AsStringHeaders(dicts[headers], body)))
    \/ get_message("A", FALSE)
    \/ getline_setblocking("A")
    \/ getline_recv("A")
    \/ getline_finally("A")

SpecSend == InitSend /\ [][NextSend]_vars

(***************************************************************************)
(* Properties of send_frame and connect                                    *)
(***************************************************************************)
\* the frame was built with a receipt requested (and the build went through)
ReceiptRequested(arg) == arg.want_receipt /\ arg.exc = ""

\* C3 (as claimed): send_frame goes on to read a reply exactly when the
\* frame it sends was built with a receipt requested; it has written the
\* frame before it reads; and for a frame built without a receipt request
\* it returns nothing, has read nothing and leaves both queues as they were.
C3ReplyIffReceiptRequested ==
    \A c \in Ctx :
        /\ (op[c] = "send_frame" /\ pc[c] # "idle")
               => /\ ReceiptRequested(start[c].arg)
                  /\ Len(sockout) = start[c].w0 + 1
        /\ (last[c].op = "send_frame" /\ last[c].out.kind # "raise")
               => IF ReceiptRequested(last[c].from.arg)
                  THEN last[c].out.kind = "frame"
                  ELSE /\ last[c].out = NoFrame
                       /\ ~last[c].from.read
                       /\ last[c].iq1 = last[c].from.iq
                       /\ last[c].rq1 = last[c].from.rq

\* the text connect writes: CONNECT, the x-client header, a blank line, the
\* missing body as "%s" prints it, and the null byte
ConnectText ==
    <<"CONNECT", NL, "x-client", COLON, "127.0.0.1", NL, NL, "N", "o", "n", "e", NUL>>

ReceiptTexts == {<<"abc123", "-", "0">>, <<"abc123", "-", "4", "1">>}

\* C4: while connect reads, the CONNECT frame is the last text written and
\* was written by this call; when connect has returned, self.session is the
\* header mapping of the reply it got, which is the first reply of the
\* peer's script that no earlier call took; and a frame built with a receipt
\* requested holds a receipt header made of the session value, "-" and the
\* random number.
C4Handshake ==
    /\ \A c \in Ctx :
           /\ (op[c] = "connect" /\ pc[c] # "idle")
                  => /\ Len(sockout) = start[c].w0 + 1
                     /\ sockout[Len(sockout)] = ConnectText
           /\ (last[c].op = "connect" /\ last[c].out.kind = "frame")
                  => /\ ~session.isNone
                     /\ session.d = last[c].out.headers
                     /\ ~last[c].from.read
                            => last[c].from.rq # <<>> /\ last[c].out = last[c].from.rq[1]
    /\ IsPrefix(Pick(returns, {"get_reply", "send_frame", "connect"}), OfKind(script, FALSE))
    /\ (built.want_receipt /\ built.exc = "")
           => /\ ~session.isNone
              /\ <<"receipt">> \in DOMAIN dicts[headers]
              /\ <<"session">> \in DOMAIN session.d
              /\ \E t \in ReceiptTexts : dicts[headers][<<"receipt">>] = t
              /\ SubSeq(dicts[headers][<<"receipt">>], 1, 1) = session.d[<<"session">>]

\* connect read past a MESSAGE to the CONNECTED reply with session abc123,
\* and a frame was then built with a receipt requested
C4Witness ==
    /\ script[1].command = <<"MESSAGE">>
    /\ last["A"].op = "connect"
    /\ session.d = [k \in {<<"session">>} |-> <<"abc123">>]
    /\ built.want_receipt
    /\ dicts[headers][<<"receipt">>] = <<"abc123", "-", "4", "1">>

(***************************************************************************)
(* The serializer against the reader and the parser: one frame is built    *)
(* and written, the transport gives the written text back, and the text is *)
(* read and parsed; or the peer delivers a raw text of its own.            *)
(***************************************************************************)
MaxBody == 2

BodySymbols == {"a", NL, NUL}
WireBodies == UNION {[1..n -> BodySymbols] : n \in 0..MaxBody}
WireCommands == {<<"SEND">>}
WireHeaders ==
    {EmptyDict,
     Queue,
     [k \in {BytesMessageKey} |-> <<"t">>],
     [k \in {DestinationKey, BytesMessageKey} |-> <<"q">>]}

RawTexts ==
    {<<"MESSAGE", NL, "foo", COLON, "bar">>,
     <<"MESSAGE">>,
     <<"MESSAGE", NL, "foo", COLON, "bar", NL, NL, "a">>}

InitWire ==
    /\ InitConn
    /\ dicts = [own |-> EmptyDict, caller |-> EmptyDict]
    /\ script = <<>>
    /\ sockin = <<>>
    /\ future \in {<<>>} \cup {t \o Terminator : t \in RawTexts}

\* nothing has been built, written or read yet, and no raw text is on its way
Fresh ==
    /\ sockout = <<>>
    /\ built = NoBuild
    /\ last["A"] = NoCall
    /\ sockin = <<>>
    /\ future = <<>>

\* the transport gives back the text that was written; the frame it stands
\* for is the one that was built
Echo ==
    /\ Len(sockout) = 1
    /\ script = <<>>
    /\ pc["A"] = "idle"
    /\ future' = sockout[1]
    /\ script' = <<MkFrame(built.command, built.headers, built.body)>>
    /\ UNCHANGED <<conn, queues, blocking, sockin, sockout, locals, built, returns,
                   start, last>>

NextWire ==
    \/ \E cmd \in WireCommands, fresh \in WireHeaders, b \in WireBodies :
           /\ Fresh
           /\ build_frame(cmd, "own", fresh, b, FALSE, 0)
    \/ /\ sockout = <<>>
       /\ built # NoBuild
       /\ \E order \in AsStringOrders(dicts[headers], body) : send_frame("A", order)
    \/ Echo
    \/ /\ sockout = <<>> => built = NoBuild
       /\ \E n \in BOOLEAN : parse_frame("A", n)
    \/ /\ sockout = <<>> => built = NoBuild
       /\ \E n \in BOOLEAN : get_message("A", n)
    \/ getline_setblocking("A")
    \/ getline_recv("A")
    \/ getline_eagain("A")
    \/ getline_finally("A")
    \/ Deliver

SpecWire == InitWire /\ [][NextWire]_vars

\* the reader has taken every byte of the text the transport gave back
EchoConsumed == script # <<>> /\ future = <<>> /\ sockin = <<>>

\* the text has no blank line after its command line
NoSeparator(text) ==
    LET i == Find(text, <<NL>>)
    IN i = 0 \/ Find(DropFirst(text, i), <<NL, NL>>) = 0

\* C6 (as claimed): a call that was given a text without a blank-line
\* separator ended with UnknownBrokerResponseError, returned no frame and
\* left both queues as they were.
C6MalformedRaises ==
    \A c \in Ctx :
        (last[c].op # "" /\ last[c].from.got # PyNone /\ NoSeparator(last[c].from.got))
            => /\ last[c].out.kind = "raise"
               /\ last[c].out.exc = "UnknownBrokerResponseError"
               /\ last[c].iq1 = last[c].from.iq
               /\ last[c].rq1 = last[c].from.rq

\* C7 (as claimed): every text as_string produced for the transport ends
\* with the null byte and the newline the reader waits for, so that the
\* reader, given that text, has a complete frame when it has taken its last
\* byte.
C7WireTerminator ==
    /\ \A i \in 1..Len(sockout) :
           /\ Len(sockout[i]) >= 2
           /\ sockout[i][Len(sockout[i]) - 1] = NUL
           /\ sockout[i][Len(sockout[i])] = NL
    /\ EchoConsumed => pc["A"] \in {"finally", "idle"}

\* the inputs of the round trip: a body without the two-byte terminator
\* (the commands and header mappings drawn have no newline and no colon
\* where the claim forbids them)
RoundTripInput(b) == b # PyNone /\ Find(b, <<NUL, NL>>) = 0

\* C8 (as claimed): once the reader has taken the text of a built frame,
\* parse_frame has returned a frame with the command, the headers plus
\* x-client, and the body that were built.
C8RoundTrip ==
    (EchoConsumed /\ RoundTripInput(built.body))
        => /\ pc["A"] = "idle"
           /\ last["A"].op = "parse_frame"
           /\ last["A"].out.kind = "frame"
           /\ last["A"].out.command = built.command
           /\ last["A"].out.body = built.body
           /\ last["A"].out.headers =
                  [k \in DOMAIN built.headers \cup {<<"x-client">>} |->
                      IF k = <<"x-client">> THEN <<"127.0.0.1">> ELSE built.headers[k]]

\* the header lines of a text: the lines between the command line and the
\* first blank line
HeaderLinesOf(text) ==
    LET i == Find(text, <<NL>>)
        j == Find(DropFirst(text, i), <<NL, NL>>)
    IN IF i = 0 \/ j = 0 THEN {}
       ELSE LET block == SubSeq(DropFirst(text, i), 1, j - 1)
            IN {Split(block, NL)[n] : n \in 1..Len(Split(block, NL))}

\* C9 (as claimed): for a frame built with the bytes_message marker, the
\* text written has a content-length line giving the length of the body and
\* no bytes_message line, and once the reader has taken that text
\* parse_frame has returned a frame with bytes_message set and the body
\* that was built.
C9BinaryLength ==
    (<<"bytes_message">> \in DOMAIN built.headers /\ RoundTripInput(built.body))
        => /\ \A i \in 1..Len(sockout) :
                  /\ <<"content-length", COLON>> \o Dec(Len(built.body))
                         \in HeaderLinesOf(sockout[i])
                  /\ \A l \in HeaderLinesOf(sockout[i]) : l[1] # "bytes_message"
           /\ EchoConsumed
                  => /\ pc["A"] = "idle"
                     /\ last["A"].out.kind = "frame"
                     /\ <<"bytes_message">> \in DOMAIN last["A"].out.headers
                     /\ last["A"].out.body = built.body

(***************************************************************************)
(* Two execution contexts on one connection: A calls get_message, B calls  *)
(* get_reply.  The code takes no lock: a context may be switched out       *)
(* between any two of its socket calls.                                    *)
(***************************************************************************)
MaxConcFrames == 1

InitConc ==
    /\ InitConn
    /\ dicts = [own |-> EmptyDict, caller |-> EmptyDict]
    /\ script \in Scripts({"reply", "message"}, MaxConcFrames)
    /\ future = StreamOf(script)
    /\ sockin = <<>>

NextConc ==
    \/ \E n \in BOOLEAN : get_message("A", n)
    \/ \E n \in BOOLEAN : get_reply("B", n)
    \/ \E c \in Ctx : getline_setblocking(c)
    \/ \E c \in Ctx : getline_recv(c)
    \/ \E c \in Ctx : getline_eagain(c)
    \/ \E c \in Ctx : getline_finally(c)
    \/ Deliver

SpecConc == InitConc /\ [][NextConc]_vars

\* context c is inside _getline with part of a frame in its buffer
MidFrame(c) == pc[c] = "recv" /\ buffer[c] # <<>>

\* C10 (as claimed): with get_message and get_reply running in two
\* contexts, the bytes of a frame are never shared out between the two
\* readers, the text a reader ends up with is the text of one frame of the
\* peer's script, and each accessor returns its frames in the order of
\* arrival.
C10ConcurrentReaders ==
    /\ ~(MidFrame("A") /\ MidFrame("B"))
    /\ \A c \in Ctx :
           (pc[c] = "finally" /\ buffer[c] # <<>>)
               => \E i \in 1..Len(script) : buffer[c] = PeerText(script[i])
    /\ IsPrefix(Pick(returns, {"get_reply"}), OfKind(script, FALSE))
    /\ IsPrefix(Pick(returns, {"get_message"}), OfKind(script, TRUE))

(***************************************************************************)
(* Properties of the frames the accessors read from the transport.  The    *)
(* step in which a call takes the text _getline returns, parses it and     *)
(* files or returns the frame is getline_finally.                          *)
(***************************************************************************)
\* context c, inside operation o, takes the text of _getline in this step
ReadStep(c, o) == pc[c] = "finally" /\ op[c] = o /\ pc'[c] # "finally"

\* the frame (or none, or the exception) parse_frame makes of that text
FrameRead(c) == ParseLine(GetlineResult(buffer[c]))

InQueue(f, q) == \E i \in 1..Len(q) : q[i] = f

LacksDestination(f) == f.kind = "frame" /\ DestinationKey \notin DOMAIN f.headers

ReturnedBy(f, ops) == \E i \in 1..Len(returns) : returns[i].frame = f /\ returns[i].op \in ops

\* no frame has been returned twice
NoDuplicateReturn ==
    \A i, j \in 1..Len(returns) : returns[i].frame = returns[j].frame => i = j

MaxFaultFrames == 2

\* s with x put in after its first p symbols
InsertAt(s, p, x) == SubSeq(s, 1, p) \o <<x>> \o SubSeq(s, p + 1, Len(s))

InitFault ==
    /\ InitConn
    /\ dicts = [own |-> EmptyDict, caller |-> EmptyDict]
    /\ script \in Scripts({"reply", "message"}, MaxFaultFrames)
    /\ \E p \in 0..Len(StreamOf(script)) : future = InsertAt(StreamOf(script), p, ERR)
    /\ sockin = <<>>

NextFault ==
    \/ \E n \in BOOLEAN : get_message("A", n)
    \/ \E n \in BOOLEAN : get_reply("A", n)
    \/ getline_setblocking("A")
    \/ getline_recv("A")
    \/ getline_eagain("A")
    \/ getline_error("A")
    \/ getline_finally("A")
    \/ Deliver

SpecFault == InitFault /\ [][NextFault]_vars

\* the recv of context c fails in this step with an errno other than EAGAIN
FailedRead(c) == pc[c] = "recv" /\ sockin # <<>> /\ Head(sockin) = ERR /\ sockin' = Tail(sockin)

\* C12 (as claimed): a read that fails with an errno other than EAGAIN ends
\* the call at once with that error: nothing is added to the buffer, the
\* read is not tried again, and the accessor that asked for the read has
\* raised socket.error.
C12ErrorPropagates ==
    [][\A c \in Ctx :
           FailedRead(c)
               => /\ buffer'[c] = buffer[c]
                  /\ pc'[c] = "idle"
                  /\ last'[c].op = op[c]
                  /\ last'[c].out.kind = "raise"
                  /\ last'[c].out.exc = "socket.error"]_vars

(***************************************************************************)
(* Replies read by get_message                                             *)
(***************************************************************************)
\* context c, inside operation o, goes to the transport in this step
GoesToRead(c, o) == op'[c] = o /\ pc[c] # "setblocking" /\ pc'[c] = "setblocking"

\* C13: a non-MESSAGE frame that get_message reads is appended to rqueue;
\* the replies get_reply has returned, followed by those waiting in rqueue,
\* are the first replies of the peer's script in the order of arrival (none
\* is lost, none comes twice, and a waiting reply is ahead of every reply
\* that arrives later); and get_reply goes to the transport only when
\* rqueue is empty.
C13RepliesKept ==
    /\ [][\A c \in Ctx :
              /\ (ReadStep(c, "get_message") /\ FrameRead(c).kind = "frame"
                      /\ FrameRead(c).command # MESSAGE)
                     => rqueue' = Append(rqueue, FrameRead(c))
              /\ GoesToRead(c, "get_reply") => rqueue' = <<>>]_vars
    /\ [](IsPrefix(Pick(returns, {"get_reply"}) \o rqueue, OfKind(script, FALSE)))
    /\ [](\A i, j \in 1..Len(returns) :
              (returns[i].frame = returns[j].frame /\ returns[i].op = "get_reply") => i = j)

\* get_reply has returned a reply that get_message had read before: the
\* reply arrived ahead of a message that get_message returned earlier
C13Witness ==
    \E i, j \in 1..Len(returns) :
        /\ i < j
        /\ returns[i].op = "get_message"
        /\ returns[j].op = "get_reply"
        /\ \E m, n \in 1..Len(script) :
               m < n /\ script[m] = returns[j].frame /\ script[n] = returns[i].frame

(***************************************************************************)
(* Messages read by get_reply                                              *)
(***************************************************************************)
\* the MESSAGE frame get_reply reads in this step in context c, if any
MessageReadByReply(c) ==
    /\ ReadStep(c, "get_reply")
    /\ FrameRead(c).kind = "frame"
    /\ FrameRead(c).command = MESSAGE

\* C14: every frame in iqueue has a destination header.  A MESSAGE frame
\* with one that get_reply reads is appended to iqueue, and get_message
\* returns the head of iqueue before it reads anything; a MESSAGE frame
\* without one that get_reply reads is discarded: it is put on neither
\* queue and is not returned, so that no later call can return it.
C14DestinationFilter ==
    /\ [](\A i \in 1..Len(iqueue) : DestinationKey \in DOMAIN iqueue[i].headers)
    /\ [][\A c \in Ctx :
              /\ (MessageReadByReply(c) /\ ~LacksDestination(FrameRead(c)))
                     => iqueue' = Append(iqueue, FrameRead(c))
              /\ (MessageReadByReply(c) /\ LacksDestination(FrameRead(c)))
                     => /\ iqueue' = iqueue
                        /\ rqueue' = rqueue
                        /\ returns' = returns
              /\ (pc[c] = "idle" /\ op'[c] = "get_message" /\ last'[c] # last[c]
                      /\ iqueue # <<>>)
                     => /\ returns' = Append(returns, [op |-> "get_message",
                                                       frame |-> Head(iqueue)])
                        /\ iqueue' = Tail(iqueue)
              /\ (pc[c] = "idle" /\ op'[c] = "get_message" /\ pc'[c] = "setblocking")
                     => iqueue = <<>>]_vars
    /\ []NoDuplicateReturn

\* get_reply read past a MESSAGE frame without destination and one with it
\* before it returned a reply; the first has been returned by no call, the
\* second by a later get_message
C14Witness ==
    \E i, j \in 1..Len(returns), d, m, r \in 1..Len(script) :
        /\ i < j /\ d < r /\ m < r
        /\ returns[i].op = "get_reply" /\ returns[i].frame = script[r]
        /\ returns[j].op = "get_message" /\ returns[j].frame = script[m]
        /\ script[d].command = MESSAGE /\ LacksDestination(script[d])
        /\ ~ReturnedBy(script[d], {"get_message", "get_reply"})

(***************************************************************************)
(* The reader under a transport that goes on delivering: the accessors of  *)
(* one caller over a peer's script, where a byte that is due arrives       *)
(* (Deliver) and the loop of _getline takes a byte that has arrived        *)
(* (getline_recv).                                                         *)
(***************************************************************************)
MaxReadFrames == 2

InitRead ==
    /\ InitConn
    /\ dicts = [own |-> EmptyDict, caller |-> EmptyDict]
    /\ script \in Scripts({"reply", "message", "nodest"}, MaxReadFrames)
    /\ future = StreamOf(script)
    /\ sockin = <<>>

NextRead ==
    \/ \E n \in BOOLEAN : get_message("A", n)
    \/ \E n \in BOOLEAN : get_reply("A", n)
    \/ getline_setblocking("A")
    \/ getline_recv("A")
    \/ getline_eagain("A")
    \/ getline_finally("A")
    \/ Deliver

SpecRead ==
    /\ InitRead
    /\ [][NextRead]_vars
    /\ WF_vars(Deliver)
    /\ WF_vars(getline_recv("A"))

\* the recv of context c would block in this state
WouldBlock(c) == pc[c] = "recv" /\ sockin = <<>> /\ ~blocking

\* the buffer holds the bytes of one frame up to and with the first terminator
CompleteFrame(buf) ==
    /\ Find(buf, Terminator) = Len(buf) - 1
    /\ \E i \in 1..Len(script) : buf = PeerText(script[i])

\* C15: _getline comes to its return with an empty buffer (the no-data
\* result) only from a would-block met with nothing accumulated; while the
\* buffer holds a byte no step takes a byte away from it or ends the read
\* before the terminator; the text it returns is a whole frame of the peer
\* up to the first terminator, without the terminator; and a read that has
\* a byte goes on to that return when the transport delivers the rest.
C15ReadToCompletion ==
    /\ [][\A c \in Ctx :
              /\ (pc[c] = "recv" /\ pc'[c] = "finally" /\ buffer'[c] = <<>>)
                     => WouldBlock(c) /\ buffer[c] = <<>> /\ nb[c]
              /\ (pc[c] = "recv" /\ buffer[c] # <<>>)
                     => /\ IsPrefix(buffer[c], buffer'[c])
                        /\ pc'[c] \in {"recv", "finally"}
                        /\ pc'[c] = "finally" => EndsWith(buffer'[c], Terminator)]_vars
    /\ [](\A c \in Ctx :
              (pc[c] = "finally" /\ buffer[c] # <<>>)
                  => /\ CompleteFrame(buffer[c])
                     /\ GetlineResult(buffer[c]) \o Terminator = buffer[c])
    /\ \A c \in Ctx :
           (pc[c] = "recv" /\ buffer[c] # <<>>) ~> (pc[c] = "finally" /\ buffer[c] # <<>>)

\* a non-blocking read met a would-block with part of a frame in its buffer
\* and went on: it now has the whole frame
C15Witness ==
    /\ pc["A"] = "finally"
    /\ nb["A"]
    /\ ~blocking
    /\ buffer["A"] # <<>>
    /\ start["A"].read
    /\ future # <<>>

(***************************************************************************)
(* The socket's blocking flag around a read                                *)
(***************************************************************************)
\* C16 (as claimed): when a call of the one caller has ended, whatever its
\* nb argument and however its read ended (a frame, the no-data return, an
\* exception), the socket's blocking flag is what it was when the call
\* began.
C16FlagRestored ==
    \A c \in Ctx :
        (pc[c] = "idle" /\ last[c].op # "") => blocking = last[c].from.flag

(***************************************************************************)
(* A transport that may signal would-block to a socket in blocking mode    *)
(***************************************************************************)
NextTimeout ==
    \/ \E n \in BOOLEAN : get_message("A", n)
    \/ \E n \in BOOLEAN : get_reply("A", n)
    \/ getline_setblocking("A")
    \/ getline_recv("A")
    \/ getline_eagain("A")
    \/ getline_timeout("A")
    \/ getline_finally("A")
    \/ Deliver

SpecTimeout == InitRead /\ [][NextTimeout]_vars

\* C17 (as claimed): a get_message or get_reply call in blocking mode does
\* not come out of its read without a frame's text, and when it has ended
\* it has returned a frame: never the "none" result, never an exception.
C17BlockingCallWaits ==
    \A c \in Ctx :
        /\ (pc[c] = "finally" /\ op[c] \in {"get_message", "get_reply"} /\ ~nb[c])
               => buffer[c] # <<>>
        /\ (pc[c] = "idle" /\ last[c].op \in {"get_message", "get_reply"} /\ ~last[c].nb)
               => last[c].out.kind = "frame"

(***************************************************************************)
(* A stream that ends early: the peer's bytes stop somewhere before the    *)
(* last terminator is complete, and the stream is at its end.              *)
(***************************************************************************)
InitEof ==
    /\ InitConn
    /\ dicts = [own |-> EmptyDict, caller |-> EmptyDict]
    /\ script \in Scripts({"reply", "message"}, MaxFaultFrames)
    /\ \E p \in 0..(Len(StreamOf(script)) - 1) :
           future = SubSeq(StreamOf(script), 1, p) \o <<EOF>>
    /\ sockin = <<>>

NextEof ==
    \/ \E n \in BOOLEAN : get_message("A", n)
    \/ \E n \in BOOLEAN : get_reply("A", n)
    \/ getline_setblocking("A")
    \/ getline_recv("A")
    \/ getline_eagain("A")
    \/ getline_eof("A")
    \/ getline_finally("A")
    \/ Deliver

SpecEof == InitEof /\ [][NextEof]_vars

\* the recv of context c finds the stream at its end in this step
EndOfStreamRead(c) == pc[c] = "recv" /\ sockin # <<>> /\ Head(sockin) = EOF

\* C18 (as claimed): a read that finds the stream at its end before the
\* terminator ends the read attempt, and the call it belongs to fails: the
\* reader is not in its loop any more, and what the caller gets is an
\* exception, not a frame made of the partial text.
C18TruncatedStreamFails ==
    [][\A c \in Ctx :
           EndOfStreamRead(c)
               => /\ pc'[c] = "idle"
                  /\ last'[c].op = op[c]
                  /\ last'[c].out.kind = "raise"]_vars

(***************************************************************************)
(* The blocking flag with two readers (SpecConc)                           *)
(***************************************************************************)
\* C19 (as claimed): with a blocking and a non-blocking accessor call in
\* two contexts, the blocking call leaves its read only with text in its
\* buffer and ends with a frame (not the "none" result, not an exception),
\* and the non-blocking call is never suspended: whenever it is at recv
\* with nothing to read, the socket is in non-blocking mode.
C19FlagUnderConcurrency ==
    \A c \in Ctx :
        /\ (pc[c] = "finally" /\ ~nb[c]) => buffer[c] # <<>>
        /\ (pc[c] = "idle" /\ last[c].op \in {"get_message", "get_reply"} /\ ~last[c].nb)
               => last[c].out.kind = "frame"
        /\ (pc[c] = "recv" /\ nb[c] /\ sockin = <<>>) => ~blocking

(***************************************************************************)
(* The caller's header mapping (SpecSend)                                  *)
(***************************************************************************)
\* C20 (as claimed): the mapping the caller keeps and passes to build_frame
\* is never changed by build_frame, as_string or send_frame, so that it
\* holds no receipt, content-length or x-client header of an earlier
\* frame; and a frame built from it without a receipt request is sent
\* without a wait for a reply.
C20NoHeaderLeak ==
    /\ dicts.caller \in CallerHeaders
    /\ \A k \in {ReceiptKey, ContentLengthKey, XClientKey} : k \notin DOMAIN dicts.caller
    /\ \A c \in Ctx :
           (op[c] = "send_frame" /\ pc[c] # "idle" /\ start[c].arg.ref = "caller")
               => start[c].arg.want_receipt

=============================================================================
